---- MODULE Spec2Model ----
(***************************************************************************)
(* Model of the deep-research agent's streaming core:                      *)
(*   - the thinking-token filter of SummarizationService                   *)
(*     (services/summarizer.py, stream_task_summary),                      *)
(*   - the tool-call journal ToolCallTracker (services/tool_events.py),    *)
(*   - the fan-out / event multiplexer DeepResearchAgent.run_stream and    *)
(*     the per-task pipeline _execute_task (agent.py).                     *)
(* Strings are sequences of one-character strings; Python indices are      *)
(* 0-based and kept 0-based here (Slice converts).                         *)
(***************************************************************************)
EXTENDS Integers, Sequences, FiniteSets, TLC

\* ------------------------------------------------------------------ bounds
\* number of marker/letter pieces an enumerated source text is built from
MaxPieces == 3
\* number of planned tasks (one worker thread each)
NumTasks == 2
\* optional events of a streaming run (notices, summary chunks, tool calls)
MaxExtra == 1
\* tool calls recorded by the concurrent callers of the journal
MaxRecords == 2

\* ------------------------------------------------------- string utilities
Min(S) == CHOOSE x \in S : \A y \in S : x <= y

\* Python s[a:b] for 0 <= a <= b <= len(s)
Slice(s, a, b) == SubSeq(s, a + 1, b)

\* Python s.find(sub, start): least 0-based index >= start, or -1
Find(s, sub, start) ==
    LET cands == { i \in start .. (Len(s) - Len(sub)) :
                     SubSeq(s, i + 1, i + Len(sub)) = sub }
    IN  IF cands = {} THEN -1 ELSE Min(cands)

RECURSIVE Flatten(_)
Flatten(ss) == IF ss = << >> THEN << >> ELSE Head(ss) \o Flatten(Tail(ss))

OPEN  == << "<", "t", "h", "i", "n", "k", ">" >>
CLOSE == << "<", "/", "t", "h", "i", "n", "k", ">" >>

\* =========================================================================
\* TokenFilter: SummarizationService.stream_task_summary
\* =========================================================================
VARIABLES
    remove_thinking,  \* config.strip_thinking_tokens
    source_text,      \* the whole text agent.stream_run will produce
    remaining,        \* the part of it not yet delivered as a chunk
    raw_buffer,       \* nonlocal raw_buffer
    emit_index,       \* nonlocal emit_index
    visible_output,   \* nonlocal visible_output
    emitted,          \* concatenation of the segments the generator yielded
    fpc               \* "streaming" | "done" | "raised"

filterVars == << remove_thinking, source_text, remaining, raw_buffer,
                 emit_index, visible_output, emitted, fpc >>

\* state of the journal, of the task list and of the shared queue
VARIABLES
    events,          \* ToolCallTracker._events
    cursor,          \* ToolCallTracker._cursor
    event_sink,      \* ToolCallTracker._event_sink is set
    rec_event,       \* per thread: the ToolCallEvent built by record before the lock
    note_id,         \* TodoItem.note_id per task
    pc,              \* per worker thread: position in its code
    returned,        \* concatenation of the lists drain has returned
    last_result,     \* the list the most recent drain returned
    drains_in_row,   \* drain calls since the last append (capped at 2)
    event_queue,     \* run_stream's event_queue
    pushed,          \* every payload put on event_queue, in arrival order
    gen              \* per thread: number of payloads it has put

VARIABLES
    mpc,                     \* position of run_stream (the coordinating thread)
    out,                     \* the events run_stream has yielded, in order
    spawned,                 \* worker threads started so far
    finished_workers,        \* run_stream's finished_workers
    sink_task,               \* run_stream's local "task", read by tool_event_sink
    tool_event_sink_enabled, \* self._tool_event_sink_enabled
    status,                  \* TodoItem.status per task
    search_result,           \* per task: what dispatch_search returned
    n_extra,                 \* optional events produced so far
    web_research_results,    \* state.web_research_results (task of each entry)
    sources_gathered,        \* state.sources_gathered (task of each entry)
    research_loop_count,     \* state.research_loop_count
    summary,                 \* per task: TodoItem.summary is "unset" or "set"
    state_lock,              \* holder of self._state_lock (NoTask: free)
    loop_tmp,                \* per worker: the value "+= 1" has loaded
    seen_loop_count,         \* per worker: the count it passed to dispatch_search
    call,                    \* the last call of a helper: its arguments and result
    note_path,               \* TodoItem.note_path per task
    to_attach,               \* per thread: drain's new_events not yet attached
    seen_link,               \* per worker: the (note_id, note_path) it last read
    todo_count,              \* non-streaming run: how many tasks the planner returned
    todo_items,              \* non-streaming run: state.todo_items (id and query)
    research_topic           \* non-streaming run: state.research_topic

lockVars == << state_lock, loop_tmp, seen_loop_count >>
planVars == << todo_count, todo_items, research_topic >>
auxVars == << call, note_path, to_attach, seen_link, planVars >>

runVars == << mpc, out, spawned, finished_workers, sink_task,
              tool_event_sink_enabled, status, search_result, n_extra,
              web_research_results, sources_gathered, research_loop_count,
              summary, lockVars, auxVars >>

logVars == << events, cursor, event_sink, rec_event, note_id, pc,
              returned, last_result, drains_in_row >>
queueVars == << event_queue, pushed, gen >>

\* the two texts named by the testable properties
TextSplit == << "a", "b", "c" >> \o OPEN \o << "h", "i", "d", "d", "e", "n" >>
             \o CLOSE \o << "d", "e", "f" >>
TextNeverCloses == OPEN \o << "n", "e", "v", "e", "r", " ",
                              "c", "l", "o", "s", "e", "s" >>
VisibleSplit == << "a", "b", "c", "d", "e", "f" >>

Pieces == { << "a" >>, OPEN, CLOSE }
RECURSIVE PieceTexts(_)
PieceTexts(n) ==
    IF n = 0 THEN { << >> }
    ELSE LET shorter == PieceTexts(n - 1)
         IN  shorter \cup { p \o s : p \in Pieces, s \in shorter }
SourceTexts == { TextSplit, TextNeverCloses } \cup (PieceTexts(MaxPieces) \ { << >> })

\* flush_buffer, run to exhaustion: the segments it yields, in order, and the
\* value of emit_index when it stops.
RECURSIVE flush_buffer(_, _, _)
flush_buffer(buf, ei, segs) ==
    LET start == Find(buf, OPEN, ei)
    IN  IF start = -1
        THEN IF ei < Len(buf)
             THEN [emit_index |-> Len(buf),
                   segs |-> Append(segs, Slice(buf, ei, Len(buf)))]
             ELSE [emit_index |-> ei, segs |-> segs]
        ELSE LET segs2 == IF start > ei
                          THEN Append(segs, Slice(buf, ei, start))
                          ELSE segs
                 end == Find(buf, CLOSE, start)
             IN  IF end = -1
                 THEN [emit_index |-> start, segs |-> segs2]
                 ELSE flush_buffer(buf, end + Len(CLOSE), segs2)

\* flush_buffer stopped by the consumer after its first yield (the generator's
\* finally block raises while handling the first segment): emit_index has the
\* value assigned just before that yield.
RECURSIVE FirstYieldIndex(_, _)
FirstYieldIndex(buf, ei) ==
    LET start == Find(buf, OPEN, ei)
    IN  IF start = -1 THEN Len(buf)
        ELSE IF start > ei THEN start
        ELSE LET end == Find(buf, CLOSE, start)
             IN  IF end = -1 THEN ei
                 ELSE FirstYieldIndex(buf, end + Len(CLOSE))

FilterInit ==
    /\ remove_thinking \in BOOLEAN
    /\ source_text \in SourceTexts
    /\ remaining = source_text
    /\ raw_buffer = << >>
    /\ emit_index = 0
    /\ visible_output = << >>
    /\ emitted = << >>
    /\ fpc = "streaming"

\* no summary stream is open (the other specifications)
FilterIdle ==
    /\ remove_thinking = TRUE
    /\ source_text = << >>
    /\ remaining = << >>
    /\ raw_buffer = << >>
    /\ emit_index = 0
    /\ visible_output = << >>
    /\ emitted = << >>
    /\ fpc = "idle"

\* generator(): one iteration of "for chunk in agent.stream_run(prompt)"
FeedChunk ==
    /\ fpc = "streaming"
    /\ \E n \in 1 .. Len(remaining) :
        LET chunk == SubSeq(remaining, 1, n)
            buf   == raw_buffer \o chunk
            fl    == flush_buffer(buf, emit_index, << >>)
        IN  /\ remaining' = SubSeq(remaining, n + 1, Len(remaining))
            /\ raw_buffer' = buf
            /\ IF remove_thinking
               THEN /\ emit_index' = fl.emit_index
                    /\ visible_output' = visible_output \o Flatten(fl.segs)
                    /\ emitted' = emitted \o Flatten(fl.segs)
               ELSE /\ visible_output' = visible_output \o chunk
                    /\ UNCHANGED << emit_index, emitted >>
    /\ UNCHANGED << remove_thinking, source_text, fpc, logVars, queueVars, runVars >>

\* generator(): the finally block. With removal enabled flush_buffer runs once
\* more; a segment it yields is added to visible_output and then
\* "yield segment_history()" raises NameError, so nothing is emitted and
\* the generator ends by raising. srcRaised: the source itself raised.
FinallyFlush(srcRaised) ==
    LET fl == flush_buffer(raw_buffer, emit_index, << >>)
    IN  IF remove_thinking /\ fl.segs # << >>
        THEN /\ visible_output' = visible_output \o fl.segs[1]
             /\ emit_index' = FirstYieldIndex(raw_buffer, emit_index)
             /\ fpc' = "raised"
        ELSE /\ UNCHANGED << visible_output, emit_index >>
             /\ fpc' = IF srcRaised THEN "raised" ELSE "done"

\* the source is exhausted normally
EndOfStream ==
    /\ fpc = "streaming"
    /\ remaining = << >>
    /\ FinallyFlush(FALSE)
    /\ UNCHANGED << remove_thinking, source_text, remaining, raw_buffer, emitted,
                    logVars, queueVars, runVars >>

\* agent.stream_run raises before delivering the rest
SourceRaises ==
    /\ fpc = "streaming"
    /\ remaining # << >>
    /\ FinallyFlush(TRUE)
    /\ UNCHANGED << remove_thinking, source_text, remaining, raw_buffer, emitted,
                    logVars, queueVars, runVars >>

FilterNext == FeedChunk \/ EndOfStream \/ SourceRaises

\* ------------------------------------------------------ TokenFilter claims
\* an occurrence of OPEN followed later by CLOSE
HasSpan(s) ==
    LET o == Find(s, OPEN, 0)
    IN  o # -1 /\ Find(s, CLOSE, o + Len(OPEN)) # -1

\* C3: the text "abc<think>hidden</think>def", delivered in any sequence of
\* non-empty chunks, yields visible chunks whose concatenation is "abcdef".
C3_ChunkInsensitive ==
    (fpc = "done" /\ remove_thinking /\ source_text = TextSplit)
        => emitted = VisibleSplit

\* C4: when the source ends while the buffer from emit_index onward starts with
\* an OPEN that has no CLOSE, that remaining text is emitted; for the single
\* chunk "<think>never closes" the emitted text is the whole chunk.
C4_UnterminatedEmitted ==
    (/\ fpc = "done"
     /\ remove_thinking
     /\ Find(raw_buffer, OPEN, emit_index) = emit_index
     /\ Find(raw_buffer, CLOSE, emit_index) = -1)
        => LET tail == Slice(raw_buffer, emit_index, Len(raw_buffer))
           IN  /\ Len(emitted) >= Len(tail)
               /\ SubSeq(emitted, Len(emitted) - Len(tail) + 1, Len(emitted)) = tail
               /\ (source_text = TextNeverCloses => emitted = TextNeverCloses)

\* C5: with removal enabled, the concatenation of the emitted chunks never
\* contains a complete OPEN...CLOSE span, for every text and every chunking.
C5_NoCompleteSpan == remove_thinking => ~HasSpan(emitted)

\* =========================================================================
\* ToolCallTracker (services/tool_events.py) and the shared event queue
\* =========================================================================
Tasks == 1 .. NumTasks
NoTask == 0          \* task_id None
NoNote == "none"     \* note_id None
NoPath == << >>      \* note_path None
NoStep == -1         \* no "step" key
NoToken == 0         \* no "stream_token" key
Main == 0            \* the coordinating thread
Other == NumTasks + 1     \* a thread that is neither run_stream nor a worker

\* the (task_id, note_id) a payload's parameters lead record to infer
Payloads == { [task_id |-> NoTask, note_id |-> NoNote],
              [task_id |-> 1, note_id |-> "n1"] }

\* what _infer_task_id returns is any integer found in the tool parameters
\* ("task_id", a "task_<n>" tag, a title): also one that no planned task has
UnlistedTask == NumTasks + 1
InferredPayloads == { [task_id |-> 1, note_id |-> "n1"],
                      [task_id |-> UnlistedTask, note_id |-> NoNote] }

NoEvent == [id |-> 0, task_id |-> NoTask, note_id |-> NoNote]

\* record: the event is built from the payload and len(self._events) before
\* the lock is taken
ToolCallEvent(evs, payload) ==
    [id |-> Len(evs) + 1, task_id |-> payload.task_id, note_id |-> payload.note_id]

\* _attach_note_to_task (note_id only)
attach_note_to_task(notes, task_id, nid) ==
    IF task_id \in DOMAIN notes /\ notes[task_id] # nid
    THEN [notes EXCEPT ![task_id] = nid]
    ELSE notes

\* str(Path(notes_workspace) / f"{note_id}.md")
AttachPath(nid) == << nid, ".md" >>

\* an attach that recomputes the path on every call
attach_link_always_path(links, task_id, nid, workspace) ==
    IF task_id \notin DOMAIN links THEN links
    ELSE [links EXCEPT ![task_id] =
            [note_id |-> nid,
             note_path |-> IF workspace THEN AttachPath(nid) ELSE @.note_path]]

\* _attach_note_to_task on both linkage fields; links maps a task id to its
\* (note_id, note_path), workspace says whether a notes workspace is set
attach_link(links, task_id, nid, workspace) ==
    IF task_id \notin DOMAIN links THEN links
    ELSE IF links[task_id].note_id # nid
    THEN [links EXCEPT ![task_id] =
            [note_id |-> nid,
             note_path |-> IF workspace THEN AttachPath(nid) ELSE @.note_path]]
    ELSE IF links[task_id].note_path = NoPath /\ workspace
    THEN [links EXCEPT ![task_id].note_path = AttachPath(nid)]
    ELSE links

\* drain: the loop over new_events that attaches notes
RECURSIVE AttachNotes(_, _)
AttachNotes(notes, new_events) ==
    IF new_events = << >> THEN notes
    ELSE LET e == Head(new_events)
             n2 == IF e.task_id = NoTask \/ e.note_id = NoNote
                   THEN notes
                   ELSE attach_note_to_task(notes, e.task_id, e.note_id)
         IN  AttachNotes(n2, Tail(new_events))

\* drain leaving the cursor where it was
drain_keeps_cursor(evs, cur) ==
    IF cur >= Len(evs)
    THEN [new_events |-> << >>, cursor |-> cur]
    ELSE [new_events |-> SubSeq(evs, cur + 1, Len(evs)), cursor |-> cur]

\* drain returning the whole log instead of the part after the cursor
drain_whole_log(evs, cur) ==
    IF cur >= Len(evs)
    THEN [new_events |-> << >>, cursor |-> cur]
    ELSE [new_events |-> evs, cursor |-> Len(evs)]

\* drain: the critical section
drain(evs, cur) ==
    IF cur >= Len(evs)
    THEN [new_events |-> << >>, cursor |-> cur]
    ELSE [new_events |-> SubSeq(evs, cur + 1, Len(evs)), cursor |-> Len(evs)]

\* a put at the head of the queue
QueuePut_front(q, payload) == << payload >> \o q

\* Queue.put
QueuePut(q, payload) == Append(q, payload)

\* channel_map: task id -> (token, step); ids are 1..N in planned order
channel_map == [t \in Tasks |-> [token |-> t, step |-> t]]

\* _build_payload(event, step=None) as called by record
build_payload(e) ==
    [type |-> "tool_call", task_id |-> e.task_id, status |-> "",
     step |-> NoStep, stream_token |-> NoToken, event_id |-> e.id]

\* a pipeline event before enqueue stamps it
Event(type, task_id, st, step) ==
    [type |-> type, task_id |-> task_id, status |-> st,
     step |-> step, stream_token |-> NoToken, event_id |-> 0]

\* an enqueue that always takes the channel's step
enqueue_channel_step(event, task, step_override) ==
    LET target == IF task # NoTask THEN task ELSE event.task_id
    IN  IF target \in DOMAIN channel_map
        THEN [event EXCEPT !.task_id = target,
                           !.step = channel_map[target].step,
                           !.stream_token = channel_map[target].token]
        ELSE [event EXCEPT !.task_id = target]

\* enqueue: the payload it puts on the queue
enqueue(event, task, step_override) ==
    LET target == IF task # NoTask THEN task ELSE event.task_id
        p1 == [event EXCEPT !.task_id = target]
        p2 == IF target \in DOMAIN channel_map
              THEN [p1 EXCEPT !.step = IF p1.step = NoStep
                                       THEN channel_map[target].step
                                       ELSE p1.step,
                              !.stream_token = channel_map[target].token]
              ELSE p1
    IN  IF step_override # NoStep THEN [p2 EXCEPT !.step = step_override] ELSE p2

\* thread th puts a payload: event_queue.put, with the arrival history and the
\* thread's generation number
Put(th, payload) ==
    LET stamped == [src |-> th, seq |-> gen[th] + 1, ev |-> payload]
    IN  /\ event_queue' = QueuePut(event_queue, stamped)
        /\ pushed' = Append(pushed, stamped)
        /\ gen' = [gen EXCEPT ![th] = gen[th] + 1]

\* one call of drain by any thread
DrainCall ==
    LET d == drain(events, cursor)
    IN  /\ cursor' = d.cursor
        /\ note_id' = AttachNotes(note_id, d.new_events)

\* what a caller of drain observes: the list it returns
DrainObserved ==
    LET d == drain(events, cursor)
    IN  /\ returned' = returned \o d.new_events
        /\ last_result' = d.new_events
        /\ drains_in_row' = IF drains_in_row < 2 THEN drains_in_row + 1 ELSE 2

observedVars == << returned, last_result, drains_in_row >>

\* record up to the lock: the event is built, id = len(self._events) + 1
RecordBuild(th) ==
    \E payload \in Payloads :
        rec_event' = [rec_event EXCEPT ![th] = ToolCallEvent(events, payload)]

\* record from the lock on: append, then the sink (when set) is called on the
\* recording thread; task is the task the sink stamps
RecordAppend(th, task) ==
    /\ events' = Append(events, rec_event[th])
    /\ rec_event' = [rec_event EXCEPT ![th] = NoEvent]
    /\ IF event_sink
       THEN Put(th, enqueue(build_payload(rec_event[th]), task, NoStep))
       ELSE UNCHANGED queueVars

\* no run is in progress (the other specifications)
RunIdle ==
    /\ mpc = "idle"
    /\ out = << >>
    /\ spawned = 0
    /\ finished_workers = 0
    /\ sink_task = NoTask
    /\ tool_event_sink_enabled = FALSE
    /\ status = [t \in Tasks |-> "pending"]
    /\ search_result = [t \in Tasks |-> "none"]
    /\ n_extra = 0
    /\ web_research_results = << >>
    /\ sources_gathered = << >>
    /\ research_loop_count = 0
    /\ summary = [t \in Tasks |-> "unset"]
    /\ state_lock = NoTask
    /\ loop_tmp = [t \in Tasks |-> 0]
    /\ seen_loop_count = [t \in Tasks |-> 0]
    /\ call = [fn |-> "none"]
    /\ note_path = [t \in Tasks |-> NoPath]
    /\ to_attach = [t \in Tasks |-> << >>]
    /\ seen_link = [t \in Tasks |-> << NoNote, NoPath >>]
    /\ todo_count = 0
    /\ todo_items = << >>
    /\ research_topic = ""

\* ---------------------------------------------- the journal on its own:
\* every thread calls record and drain in any order, no sink registered
LogInit ==
    /\ events = << >>
    /\ cursor = 0
    /\ event_sink = FALSE
    /\ rec_event = [t \in Tasks |-> NoEvent]
    /\ note_id = [t \in Tasks |-> NoNote]
    /\ pc = [t \in Tasks |-> "idle"]
    /\ returned = << >>
    /\ last_result = << >>
    /\ drains_in_row = 0
    /\ event_queue = << >>
    /\ pushed = << >>
    /\ gen = [t \in Tasks \cup {Main, Other} |-> 0]

L_RecordBegin(t) ==
    /\ pc[t] = "idle"
    /\ Len(events) + Cardinality({u \in Tasks : pc[u] = "recording"}) < MaxRecords
    /\ RecordBuild(t)
    /\ pc' = [pc EXCEPT ![t] = "recording"]
    /\ UNCHANGED << events, cursor, event_sink, note_id, returned,
                    last_result, drains_in_row, queueVars, filterVars, runVars >>

L_RecordAppend(t) ==
    /\ pc[t] = "recording"
    /\ RecordAppend(t, NoTask)
    /\ drains_in_row' = 0
    /\ pc' = [pc EXCEPT ![t] = "idle"]
    /\ UNCHANGED << cursor, event_sink, note_id, returned, last_result,
                    filterVars, runVars >>

L_Drain(t) ==
    /\ pc[t] = "idle"
    /\ DrainCall
    /\ DrainObserved
    /\ UNCHANGED << events, event_sink, rec_event, pc, queueVars, filterVars, runVars >>

LogNext == \E t \in Tasks : L_RecordBegin(t) \/ L_RecordAppend(t) \/ L_Drain(t)

vars == << filterVars, logVars, queueVars, runVars >>

\* the journal alone: no summary stream and no run in progress
LogStart == LogInit /\ FilterIdle /\ RunIdle

LogSpec == LogStart /\ [][LogNext]_vars

\* ----------------------------------------------------------- journal claims
\* C6: for any N record calls by concurrent threads the stored ids are exactly
\* 1..N and the event at log position i has id i.
C6_IdsGapFree == \A i \in 1 .. Len(events) : events[i].id = i

\* C7: a drain that follows a drain with no record in between returns the
\* empty list and leaves the cursor and the log unchanged.
C7_SecondDrainEmpty ==
    [][((\E t \in Tasks : L_Drain(t)) /\ drains_in_row >= 1)
         => (last_result' = << >> /\ cursor' = cursor /\ events' = events)]_vars
C7_Witness ==
    drains_in_row = 2 /\ Len(events) > 0 /\ cursor = Len(events) /\ last_result = << >>

\* the lists drain has returned are, one after the other, the log up to the cursor
C8_Delivered ==
    /\ cursor <= Len(events)
    /\ returned = SubSeq(events, 1, cursor)
\* the cursor never moves back, and a drain moves it to the end of the log
C8_CursorMonotone ==
    [][/\ cursor' >= cursor
       /\ ((\E t \in Tasks : L_Drain(t)) => cursor' = Len(events))]_vars
\* C8: every appended event is in exactly one drain result (that of the first
\* drain after its append), results are in append order, and the cursor never
\* exceeds the log length and never decreases, for concurrent record and drain.
C8_ExactlyOnce == []C8_Delivered /\ C8_CursorMonotone
C8_Witness ==
    /\ Len(events) = MaxRecords
    /\ cursor = Len(events)
    /\ \E t \in Tasks : pc[t] = "idle"
    /\ Len(last_result) = 1

\* =========================================================================
\* DeepResearchAgent.run_stream and _execute_task (agent.py), streaming mode.
\* A worker action is one resumption of the _execute_task generator up to its
\* next yield, together with the worker's enqueue of the yielded event; record
\* (called by the summarizer agent inside a resumption) keeps its two parts.
\* =========================================================================
Direct(e) == [src |-> Main, seq |-> 0, ev |-> e]     \* yielded without the queue

\* a test on the wrong key: every event without a status counts as finished
IsTaskDone_no_status(event) == event.ev.status = ""

\* a test that recognises no event as the task-finished event
IsTaskDone_never(event) == event.ev.type = "never"

\* the consumer loop's test for the task-finished event
IsTaskDone(event) == event.ev.type = "__task_done__"

RECURSIVE PutAll(_, _, _, _, _)
PutAll(th, payloads, q, hist, n) ==
    IF payloads = << >> THEN [q |-> q, hist |-> hist, n |-> n]
    ELSE LET stamped == [src |-> th, seq |-> n + 1, ev |-> Head(payloads)]
         IN  PutAll(th, Tail(payloads), QueuePut(q, stamped), Append(hist, stamped), n + 1)

\* thread th enqueues a list of payloads, one after the other
PutList(th, payloads) ==
    LET r == PutAll(th, payloads, event_queue, pushed, gen[th])
    IN  /\ event_queue' = r.q
        /\ pushed' = r.hist
        /\ gen' = [gen EXCEPT ![th] = r.n]

\* _drain_tool_events(state, step): what it hands back to its caller
drain_tool_events(step) ==
    LET d == drain(events, cursor)
    IN  IF tool_event_sink_enabled THEN << >>
        ELSE [i \in 1 .. Len(d.new_events) |->
                [build_payload(d.new_events[i]) EXCEPT !.step = step]]

\* worker t forwards what a drain handed back, then its own event
Yield(t, drained, event) ==
    PutList(t, [i \in 1 .. Len(drained) |-> enqueue(drained[i], t, NoStep)]
               \o << enqueue(event, t, NoStep) >>)

RunInit ==
    /\ mpc = "start"
    /\ out = << >>
    /\ spawned = 0
    /\ finished_workers = 0
    /\ sink_task = NoTask
    /\ tool_event_sink_enabled = FALSE
    /\ status = [t \in Tasks |-> "pending"]
    /\ search_result = [t \in Tasks |-> "none"]
    /\ n_extra = 0
    /\ web_research_results = << >>
    /\ sources_gathered = << >>
    /\ research_loop_count = 0
    /\ summary = [t \in Tasks |-> "unset"]
    /\ state_lock = NoTask
    /\ loop_tmp = [t \in Tasks |-> 0]
    /\ seen_loop_count = [t \in Tasks |-> 0]
    /\ call = [fn |-> "none"]
    /\ note_path = [t \in Tasks |-> NoPath]
    /\ to_attach = [t \in Tasks |-> << >>]
    /\ seen_link = [t \in Tasks |-> << NoNote, NoPath >>]
    /\ todo_count = 0
    /\ todo_items = << >>
    /\ research_topic = ""
    /\ events = << >>
    /\ cursor = 0
    /\ event_sink = FALSE
    /\ rec_event = [t \in Tasks |-> NoEvent]
    /\ note_id = [t \in Tasks |-> NoNote]
    /\ pc = [t \in Tasks |-> "unstarted"]
    /\ returned = << >>
    /\ last_result = << >>
    /\ drains_in_row = 0
    /\ event_queue = << >>
    /\ pushed = << >>
    /\ gen = [t \in Tasks \cup {Main, Other} |-> 0]

stateVars == << web_research_results, sources_gathered, research_loop_count >>

\* ------------------------------------------------------------ coordinator
\* run_stream up to the fan-out: status event, planning, drain, channel map,
\* todo_list event, sink registration
M_Start ==
    /\ mpc = "start"
    /\ DrainCall
    /\ out' = out \o << Direct(Event("status", NoTask, "", NoStep)) >>
                  \o [i \in 1 .. Len(drain_tool_events(NoStep)) |->
                        Direct(drain_tool_events(NoStep)[i])]
                  \o << Direct(Event("todo_list", NoTask, "", 0)) >>
    /\ sink_task' = NumTasks
    /\ event_sink' = TRUE
    /\ tool_event_sink_enabled' = TRUE
    /\ mpc' = "spawn"
    /\ UNCHANGED << events, rec_event, pc, observedVars, queueVars, spawned,
                    finished_workers, status, search_result, n_extra, stateVars, summary, lockVars, auxVars,
                    filterVars >>

\* one iteration of "for task in state.todo_items: ... thread.start()"
M_Spawn ==
    /\ mpc = "spawn"
    /\ spawned < NumTasks
    /\ spawned' = spawned + 1
    /\ sink_task' = spawned + 1
    /\ pc' = [pc EXCEPT ![spawned + 1] = "begin"]
    /\ finished_workers' = 0
    /\ mpc' = IF spawned + 1 = NumTasks THEN "consume" ELSE "spawn"
    /\ UNCHANGED << out, tool_event_sink_enabled, status, search_result, n_extra,
                    stateVars, summary, lockVars, auxVars, events, cursor, event_sink, rec_event, note_id,
                    observedVars, queueVars, filterVars >>

\* one iteration of "while finished_workers < active_workers": blocking get
M_Get ==
    /\ mpc = "consume"
    /\ finished_workers < NumTasks
    /\ event_queue # << >>
    /\ LET event == Head(event_queue)
       IN  /\ event_queue' = Tail(event_queue)
           /\ IF IsTaskDone(event)
              THEN /\ finished_workers' = finished_workers + 1
                   /\ out' = out
              ELSE /\ finished_workers' = finished_workers
                   /\ out' = Append(out, event)
    /\ mpc' = IF finished_workers' < NumTasks THEN "consume" ELSE "flush"
    /\ UNCHANGED << pushed, gen, spawned, sink_task, tool_event_sink_enabled,
                    status, search_result, n_extra, stateVars, summary, lockVars, auxVars, logVars, filterVars >>

\* one iteration of the final "while True": get_nowait; on Empty the loop is
\* left and the finally block deregisters the sink
M_Flush ==
    /\ mpc = "flush"
    /\ IF event_queue = << >>
       THEN /\ event_sink' = FALSE
            /\ tool_event_sink_enabled' = FALSE
            /\ mpc' = "join"
            /\ UNCHANGED << event_queue, out >>
       ELSE /\ event_queue' = Tail(event_queue)
            /\ out' = IF Head(event_queue).ev.type = "__task_done__"
                      THEN Append(out, Head(event_queue))
                      ELSE out
            /\ UNCHANGED << event_sink, tool_event_sink_enabled, mpc >>
    /\ UNCHANGED << pushed, gen, spawned, finished_workers, sink_task, status,
                    search_result, n_extra, stateVars, summary, lockVars, auxVars, events, cursor, rec_event,
                    note_id, pc, observedVars, filterVars >>

\* "for thread in threads: thread.join()"
M_Join ==
    /\ mpc = "join"
    /\ \A t \in Tasks : pc[t] = "done"
    /\ mpc' = "report"
    /\ UNCHANGED << out, spawned, finished_workers, sink_task,
                    tool_event_sink_enabled, status, search_result, n_extra,
                    stateVars, summary, lockVars, auxVars, logVars, queueVars, filterVars >>

\* a report phase that yields done before final_report
M_Report_done_first ==
    /\ mpc = "report"
    /\ DrainCall
    /\ out' = out \o [i \in 1 .. Len(drain_tool_events(NumTasks + 1)) |->
                        Direct(drain_tool_events(NumTasks + 1)[i])]
                  \o << Direct(Event("done", NoTask, "", NoStep)),
                        Direct(Event("final_report", NoTask, "", NoStep)) >>
    /\ mpc' = "done"
    /\ UNCHANGED << events, event_sink, rec_event, pc, observedVars, queueVars,
                    spawned, finished_workers, sink_task, tool_event_sink_enabled,
                    status, search_result, n_extra, stateVars, summary, lockVars, auxVars, filterVars >>

\* report, drain with step N + 1, final_report and done
M_Report ==
    /\ mpc = "report"
    /\ DrainCall
    /\ out' = out \o [i \in 1 .. Len(drain_tool_events(NumTasks + 1)) |->
                        Direct(drain_tool_events(NumTasks + 1)[i])]
                  \o << Direct(Event("final_report", NoTask, "", NoStep)),
                        Direct(Event("done", NoTask, "", NoStep)) >>
    /\ mpc' = "done"
    /\ UNCHANGED << events, event_sink, rec_event, pc, observedVars, queueVars,
                    spawned, finished_workers, sink_task, tool_event_sink_enabled,
                    status, search_result, n_extra, stateVars, summary, lockVars, auxVars, filterVars >>

\* planner.plan_todo_list (line 185) or reporting.generate_report (line 311):
\* the planner or report agent calls a tool on the coordinating thread; no
\* sink is registered in these phases, record only appends to the journal
M_ToolCall ==
    /\ mpc \in {"start", "report"}
    /\ n_extra < MaxExtra
    /\ n_extra' = n_extra + 1
    /\ \E payload \in InferredPayloads :
           events' = Append(events, ToolCallEvent(events, payload))
    /\ UNCHANGED << mpc, out, spawned, finished_workers, sink_task,
                    tool_event_sink_enabled, status, search_result, stateVars,
                    summary, lockVars, auxVars, cursor, event_sink, rec_event,
                    note_id, pc, observedVars, queueVars, filterVars >>

Coordinator ==
    M_Start \/ M_Spawn \/ M_Get \/ M_Flush \/ M_Join \/ M_Report \/ M_ToolCall

\* ----------------------------------------------------------------- worker
\* what a worker step leaves alone besides pc, the task and the queue
WorkerFrame ==
    UNCHANGED << mpc, out, spawned, finished_workers, sink_task,
                 tool_event_sink_enabled, event_sink, observedVars, filterVars,
                 lockVars, auxVars >>
NoDrain == UNCHANGED << cursor, note_id >>
NoRecord == UNCHANGED << events, rec_event >>

\* the drain a resumption starts with when the generator was suspended at a
\* yield inside the summary loop (pc "stream"); none in the middle of a
\* resumption (pc "running", after a tool call)
ResumeDrain(t) == IF pc[t] = "stream" THEN DrainCall ELSE NoDrain

\* an except clause that only logs
EnqueueFailed_log_only(t) == PutList(t, << >>)

\* worker, except clause: enqueue the failed task_status
EnqueueFailed(t) == Yield(t, << >>, Event("task_status", t, "failed", NoStep))

\* worker: enqueue the in_progress task_status; the first resumption of the
\* generator begins: task.status = "in_progress"
W_Begin(t) ==
    /\ pc[t] = "begin"
    /\ Yield(t, << >>, Event("task_status", t, "in_progress", NoStep))
    /\ status' = [status EXCEPT ![t] = "in_progress"]
    /\ pc' = [pc EXCEPT ![t] = "search"]
    /\ UNCHANGED << search_result, n_extra, stateVars, summary >>
    /\ WorkerFrame /\ NoDrain /\ NoRecord

\* a failure that takes the running siblings down with it
W_Raises_aborts_all(t) ==
    /\ \/ pc[t] = "search"
       \/ pc[t] = "noticed" /\ search_result[t] = "results"
    /\ EnqueueFailed(t)
    /\ pc' = [u \in Tasks |->
                IF u = t \/ pc[u] \in {"search", "noticed", "stream", "running"}
                THEN "finally" ELSE pc[u]]
    /\ UNCHANGED << status, search_result, n_extra, stateVars, summary >>
    /\ WorkerFrame /\ NoDrain /\ NoRecord

\* _execute_task: dispatch_search raises, or prepare_research_context does; the worker's except clause enqueues failed
W_Raises(t) ==
    /\ \/ pc[t] = "search"
       \/ pc[t] = "noticed" /\ search_result[t] = "results"
    /\ EnqueueFailed(t)
    /\ pc' = [pc EXCEPT ![t] = "finally"]
    /\ UNCHANGED << status, search_result, n_extra, stateVars, summary >>
    /\ WorkerFrame /\ NoDrain /\ NoRecord

\* _execute_task: search returns with a notice: drain, status event
W_Notice(t) ==
    /\ pc[t] = "search"
    /\ n_extra < MaxExtra
    /\ n_extra' = n_extra + 1
    /\ \E r \in {"empty", "results"} :
           search_result' = [search_result EXCEPT ![t] = r]
    /\ DrainCall
    /\ Yield(t, drain_tool_events(t), Event("status", t, "", t))
    /\ pc' = [pc EXCEPT ![t] = "noticed"]
    /\ UNCHANGED << status, stateVars, summary >>
    /\ WorkerFrame /\ NoRecord

\* a skip that still appends to the gathered sources
W_Skip_appends_source(t) ==
    /\ \/ pc[t] = "search"
       \/ pc[t] = "noticed" /\ search_result[t] = "empty"
    /\ search_result' = [search_result EXCEPT ![t] = "empty"]
    /\ status' = [status EXCEPT ![t] = "skipped"]
    /\ sources_gathered' = Append(sources_gathered, t)
    /\ DrainCall
    /\ Yield(t, drain_tool_events(t), Event("task_status", t, "skipped", t))
    /\ pc' = [pc EXCEPT ![t] = "finally"]
    /\ UNCHANGED << n_extra, web_research_results, research_loop_count, summary >>
    /\ WorkerFrame /\ NoRecord

\* _execute_task: no results: status skipped, drain, terminal event, return
W_Skip(t) ==
    /\ \/ pc[t] = "search"
       \/ pc[t] = "noticed" /\ search_result[t] = "empty"
    /\ search_result' = [search_result EXCEPT ![t] = "empty"]
    /\ status' = [status EXCEPT ![t] = "skipped"]
    /\ DrainCall
    /\ Yield(t, drain_tool_events(t), Event("task_status", t, "skipped", t))
    /\ pc' = [pc EXCEPT ![t] = "finally"]
    /\ UNCHANGED << n_extra, stateVars, summary >>
    /\ WorkerFrame /\ NoRecord

\* _execute_task: results: prepare_research_context, the critical section on
\* the shared state, drain, sources event
W_Sources(t) ==
    /\ \/ pc[t] = "search"
       \/ pc[t] = "noticed" /\ search_result[t] = "results"
    /\ search_result' = [search_result EXCEPT ![t] = "results"]
    /\ web_research_results' = Append(web_research_results, t)
    /\ sources_gathered' = Append(sources_gathered, t)
    /\ research_loop_count' = research_loop_count + 1
    /\ DrainCall
    /\ Yield(t, drain_tool_events(t), Event("sources", t, "", t))
    /\ pc' = [pc EXCEPT ![t] = "stream"]
    /\ UNCHANGED << n_extra, status, summary >>
    /\ WorkerFrame /\ NoRecord

\* _execute_task: the summary stream yields a visible chunk
W_Chunk(t) ==
    /\ pc[t] \in {"stream", "running"}
    /\ n_extra < MaxExtra
    /\ n_extra' = n_extra + 1
    /\ ResumeDrain(t)
    /\ Yield(t, IF pc[t] = "stream" THEN drain_tool_events(t) ELSE << >>,
             Event("task_summary_chunk", t, "", t))
    /\ pc' = [pc EXCEPT ![t] = "stream"]
    /\ UNCHANGED << status, search_result, stateVars, summary >>
    /\ WorkerFrame /\ NoRecord

\* the summarizer agent calls a tool on the worker's thread: record up to the lock
W_RecordBegin(t) ==
    /\ pc[t] \in {"stream", "running"}
    /\ n_extra < MaxExtra
    /\ n_extra' = n_extra + 1
    /\ ResumeDrain(t)
    /\ PutList(t, IF pc[t] = "stream"
                  THEN [i \in 1 .. Len(drain_tool_events(t)) |->
                          enqueue(drain_tool_events(t)[i], t, NoStep)]
                  ELSE << >>)
    /\ RecordBuild(t)
    /\ pc' = [pc EXCEPT ![t] = "recording"]
    /\ UNCHANGED << events, status, search_result, stateVars, summary >>
    /\ WorkerFrame

\* record from the lock on: append, tool_event_sink -> enqueue(event, task=task)
W_RecordAppend(t) ==
    /\ pc[t] = "recording"
    /\ RecordAppend(t, sink_task)
    /\ pc' = [pc EXCEPT ![t] = "running"]
    /\ UNCHANGED << status, search_result, n_extra, stateVars, summary >>
    /\ WorkerFrame /\ NoDrain

\* the summary stream raises; the worker's except clause enqueues failed
W_StreamRaises(t) ==
    /\ pc[t] \in {"stream", "running"}
    /\ ResumeDrain(t)
    /\ EnqueueFailed(t)
    /\ pc' = [pc EXCEPT ![t] = "finally"]
    /\ UNCHANGED << status, search_result, n_extra, stateVars, summary >>
    /\ WorkerFrame /\ NoRecord

\* the generator raising after its completed event, so that the except clause
\* enqueues failed as well
W_Complete_then_raises(t) ==
    /\ pc[t] \in {"stream", "running"}
    /\ summary' = [summary EXCEPT ![t] = "set"]
    /\ status' = [status EXCEPT ![t] = "completed"]
    /\ DrainCall
    /\ PutList(t, << enqueue(Event("task_status", t, "completed", t), t, NoStep),
                     enqueue(Event("task_status", t, "failed", NoStep), t, NoStep) >>)
    /\ pc' = [pc EXCEPT ![t] = "finally"]
    /\ UNCHANGED << search_result, n_extra, stateVars >>
    /\ WorkerFrame /\ NoRecord

\* _execute_task: the stream ends: summary, status completed, drain, terminal
\* event; the generator returns
W_Complete(t) ==
    /\ pc[t] \in {"stream", "running"}
    /\ summary' = [summary EXCEPT ![t] = "set"]
    /\ status' = [status EXCEPT ![t] = "completed"]
    /\ DrainCall
    /\ Yield(t, drain_tool_events(t), Event("task_status", t, "completed", t))
    /\ pc' = [pc EXCEPT ![t] = "finally"]
    /\ UNCHANGED << search_result, n_extra, stateVars >>
    /\ WorkerFrame /\ NoRecord

\* a worker that ends without its task-finished event
W_Finally_no_sentinel(t) ==
    /\ pc[t] = "finally"
    /\ PutList(t, << >>)
    /\ pc' = [pc EXCEPT ![t] = "done"]
    /\ UNCHANGED << status, search_result, n_extra, stateVars, summary >>
    /\ WorkerFrame /\ NoDrain /\ NoRecord

\* a worker that puts its task back to pending when it ends
W_Finally_resets_status(t) ==
    /\ pc[t] = "finally"
    /\ PutList(t, << enqueue(Event("__task_done__", t, "", NoStep), NoTask, NoStep) >>)
    /\ status' = [status EXCEPT ![t] = "pending"]
    /\ pc' = [pc EXCEPT ![t] = "done"]
    /\ UNCHANGED << search_result, n_extra, stateVars, summary >>
    /\ WorkerFrame /\ NoDrain /\ NoRecord

\* worker: finally: enqueue the task-finished event (no task argument)
W_Finally(t) ==
    /\ pc[t] = "finally"
    /\ PutList(t, << enqueue(Event("__task_done__", t, "", NoStep), NoTask, NoStep) >>)
    /\ pc' = [pc EXCEPT ![t] = "done"]
    /\ UNCHANGED << status, search_result, n_extra, stateVars, summary >>
    /\ WorkerFrame /\ NoDrain /\ NoRecord

Worker(t) ==
    \/ W_Begin(t) \/ W_Raises(t) \/ W_Notice(t) \/ W_Skip(t)
    \/ W_Sources(t) \/ W_Chunk(t) \/ W_RecordBegin(t) \/ W_RecordAppend(t)
    \/ W_StreamRaises(t) \/ W_Complete(t) \/ W_Finally(t)

Next == Coordinator \/ \E t \in Tasks : Worker(t)

\* a streaming run starts; the summary stream filter is modelled on its own
Init == RunInit /\ FilterIdle

Spec == Init /\ [][Next]_vars

\* the worker threads and the coordinator are scheduled fairly
FairSpec == Spec /\ WF_vars(Coordinator) /\ \A t \in Tasks : WF_vars(Worker(t))

\* -------------------------------------- the agent instance used by others
\* The tracker and its sink belong to the agent instance, not to the run: a
\* tool call made on another thread through one of the instance's agents
\* (tool_call_listener = self._tool_tracker.record) reaches record while
\* run_stream consumes, and the registered sink enqueues it on the run's queue.
X_Record ==
    /\ mpc \in {"consume", "flush"}
    /\ n_extra < MaxExtra
    /\ n_extra' = n_extra + 1
    /\ \E payload \in Payloads :
           LET event == ToolCallEvent(events, payload)
           IN  /\ events' = Append(events, event)
               /\ IF event_sink
                  THEN Put(Other, enqueue(build_payload(event), sink_task, NoStep))
                  ELSE UNCHANGED queueVars
    /\ UNCHANGED << cursor, event_sink, rec_event, note_id, pc, observedVars,
                    mpc, out, spawned, finished_workers, sink_task,
                    tool_event_sink_enabled, status, search_result, stateVars,
                    summary, lockVars, auxVars, filterVars >>

SharedNext == Next \/ X_Record

SharedSpec == Init /\ [][SharedNext]_vars

\* ------------------------------------------- leaving the stream before its end
\* what a step of run_stream's other exits leaves alone
ExitFrame ==
    UNCHANGED << spawned, finished_workers, sink_task, status, search_result,
                 n_extra, stateVars, summary, lockVars, auxVars, events, cursor, rec_event,
                 note_id, pc, observedVars, queueVars, filterVars >>

\* the consumer closes the generator at its first yield (line 182): nothing
\* has been registered yet
M_CloseEarly ==
    /\ mpc = "start"
    /\ out' = out \o << Direct(Event("status", NoTask, "", NoStep)) >>
    /\ mpc' = "closed"
    /\ UNCHANGED << event_sink, tool_event_sink_enabled >>
    /\ ExitFrame

\* an exit that leaves the sink registered
M_Abort_keeps_sink ==
    /\ mpc \in {"consume", "flush"}
    /\ mpc' = "abort_join"
    /\ UNCHANGED << out, event_sink, tool_event_sink_enabled >>
    /\ ExitFrame

\* the try block of lines 290-305 is left by an exception raised in the
\* consumer loop, or by GeneratorExit at "yield event" when the consumer closes
\* the stream: the finally clause deregisters the sink
M_Abort ==
    /\ mpc \in {"consume", "flush"}
    /\ event_sink' = FALSE
    /\ tool_event_sink_enabled' = FALSE
    /\ mpc' = "abort_join"
    /\ UNCHANGED out
    /\ ExitFrame

\* the finally clause joins the threads; the exception then leaves run_stream
M_AbortJoin ==
    /\ mpc = "abort_join"
    /\ \A t \in Tasks : pc[t] = "done"
    /\ mpc' = "closed"
    /\ UNCHANGED << out, event_sink, tool_event_sink_enabled >>
    /\ ExitFrame

\* after run_stream a tool call of a later, non-streaming run on the same
\* instance reaches record (on the calling thread)
R_Record ==
    /\ mpc \in {"closed", "done"}
    /\ n_extra < MaxExtra
    /\ n_extra' = n_extra + 1
    /\ \E payload \in Payloads :
           LET event == ToolCallEvent(events, payload)
           IN  /\ events' = Append(events, event)
               /\ IF event_sink
                  THEN Put(Main, enqueue(build_payload(event), sink_task, NoStep))
                  ELSE UNCHANGED queueVars
    /\ UNCHANGED << cursor, event_sink, rec_event, note_id, pc, observedVars,
                    mpc, out, spawned, finished_workers, sink_task,
                    tool_event_sink_enabled, status, search_result, stateVars,
                    summary, lockVars, auxVars, filterVars >>

ExitNext == Next \/ M_CloseEarly \/ M_Abort \/ M_AbortJoin \/ R_Record

ExitSpec == Init /\ [][ExitNext]_vars

\* ------------------------------------------------ DeepResearchAgent.run:
\* the non-streaming run, on the calling thread; no sink is registered
Topics == {"", "topic"}

\* PlanningService.create_fallback_task: id 1 and the query built from the topic
create_fallback_task(topic) ==
    [id |-> 1,
     query |-> IF topic # "" THEN << topic, " latest progress" >>
               ELSE << "background review" >>]

\* plan_todo_list: ids are the 1-based positions of the planner's items
plan_todo_list(n) == [idx \in 1 .. n |-> [id |-> idx, query |-> << "query" >>]]

\* tracker.drain(state): the notes of the drained slice are attached to the
\* tasks of state.todo_items only
Listed(event) == \E i \in DOMAIN todo_items : todo_items[i].id = event.task_id
RunDrain ==
    LET d == drain(events, cursor)
    IN  /\ cursor' = d.cursor
        /\ note_id' = AttachNotes(note_id, SelectSeq(d.new_events, Listed))
        /\ DrainObserved

RunFrame ==
    UNCHANGED << filterVars, queueVars, event_sink, rec_event, pc, finished_workers,
                 sink_task, tool_event_sink_enabled, status, search_result, n_extra,
                 stateVars, summary, lockVars, call, note_path, to_attach,
                 seen_link >>

\* state = SummaryState(research_topic=topic)
R_Begin ==
    /\ mpc = "idle"
    /\ \E topic \in Topics : research_topic' = topic
    /\ mpc' = "plan"
    /\ UNCHANGED << out, spawned, todo_count, todo_items, events, cursor, note_id,
                    observedVars >>
    /\ RunFrame

\* the planner agent (inside plan_todo_list) or the report agent (inside
\* generate_report) calls a tool: record appends to the journal
R_ToolCall ==
    /\ mpc \in {"plan", "report"}
    /\ Len(events) < MaxRecords
    /\ \E payload \in Payloads \cup InferredPayloads :
           events' = Append(events, ToolCallEvent(events, payload))
    /\ drains_in_row' = 0
    /\ UNCHANGED << mpc, out, spawned, planVars, cursor, note_id, returned,
                    last_result >>
    /\ RunFrame

\* state.todo_items = self.planner.plan_todo_list(state)
R_Plan ==
    /\ mpc = "plan"
    /\ \E n \in 0 .. NumTasks :
           /\ todo_count' = n
           /\ todo_items' = plan_todo_list(n)
    /\ mpc' = "drain_plan"
    /\ UNCHANGED << out, spawned, research_topic, events, cursor, note_id,
                    observedVars >>
    /\ RunFrame

\* self._drain_tool_events(state): the list it returns is dropped
R_DrainPlan ==
    /\ mpc = "drain_plan"
    /\ RunDrain
    /\ mpc' = "fallback"
    /\ UNCHANGED << out, spawned, planVars, events >>
    /\ RunFrame

\* if not state.todo_items: state.todo_items = [create_fallback_task(state)]
R_Fallback ==
    /\ mpc = "fallback"
    /\ todo_items' = IF todo_items = << >>
                     THEN << create_fallback_task(research_topic) >>
                     ELSE todo_items
    /\ mpc' = "tasks"
    /\ UNCHANGED << out, spawned, todo_count, research_topic, events, cursor,
                    note_id, observedVars >>
    /\ RunFrame

\* one iteration of "for task in state.todo_items:
\* self._execute_task(state, task, emit_stream=False)": _execute_task is a
\* generator function, the call creates a generator object that is dropped
\* without being iterated, so no statement of its body runs
R_Task ==
    /\ mpc = "tasks"
    /\ spawned < Len(todo_items)
    /\ spawned' = spawned + 1
    /\ mpc' = IF spawned + 1 = Len(todo_items) THEN "report" ELSE "tasks"
    /\ UNCHANGED << out, planVars, events, cursor, note_id, observedVars >>
    /\ RunFrame

\* a run whose second drain is missing
R_DrainReport_skipped ==
    /\ mpc = "report"
    /\ mpc' = "persist"
    /\ UNCHANGED << out, spawned, planVars, events, cursor, note_id, observedVars >>
    /\ RunFrame

\* generate_report has returned; self._drain_tool_events(state)
R_DrainReport ==
    /\ mpc = "report"
    /\ RunDrain
    /\ mpc' = "persist"
    /\ UNCHANGED << out, spawned, planVars, events >>
    /\ RunFrame

\* _persist_final_report (note_tool.run is called directly, not through an
\* agent's tool listener) and return SummaryStateOutput(running_summary,
\* report_markdown, todo_items): the result carries no tool event
R_Return ==
    /\ mpc = "persist"
    /\ out' = << >>
    /\ mpc' = "returned"
    /\ UNCHANGED << spawned, planVars, events, cursor, note_id, observedVars >>
    /\ RunFrame

RunNext ==
    \/ R_Begin \/ R_ToolCall \/ R_Plan \/ R_DrainPlan \/ R_Fallback
    \/ R_Task \/ R_DrainReport \/ R_Return

RunSpec == LogStart /\ [][RunNext]_vars

\* ------------------------------------------------ run-level failure:
\* an exception that leaves run_stream outside the workers, and the endpoint's
\* event_iterator (main.py) around it
\* planner.plan_todo_list raises after the first yield
M_PlanRaises ==
    /\ mpc = "start"
    /\ out' = out \o << Direct(Event("status", NoTask, "", NoStep)) >>
    /\ mpc' = "failed"
    /\ UNCHANGED << event_sink, tool_event_sink_enabled >>
    /\ ExitFrame

\* reporting.generate_report raises: the sink is off, the threads are joined
M_ReportRaises ==
    /\ mpc = "report"
    /\ mpc' = "failed"
    /\ UNCHANGED << out, event_sink, tool_event_sink_enabled >>
    /\ ExitFrame

\* _persist_final_report raises (note_tool.run) after the report drain
M_PersistRaises ==
    /\ mpc = "report"
    /\ DrainCall
    /\ out' = out \o [i \in 1 .. Len(drain_tool_events(NumTasks + 1)) |->
                        Direct(drain_tool_events(NumTasks + 1)[i])]
    /\ mpc' = "failed"
    /\ UNCHANGED << events, event_sink, rec_event, pc, observedVars, queueVars,
                    spawned, finished_workers, sink_task, tool_event_sink_enabled,
                    status, search_result, n_extra, stateVars, summary, lockVars,
                    auxVars, filterVars >>

\* an endpoint that lets the exception through
event_iterator_no_except == [i \in 1 .. Len(out) |-> out[i].ev.type]

\* event_iterator: the types of the events written to the response so far;
\* "except Exception" adds one error event when run_stream has raised
event_iterator ==
    [i \in 1 .. Len(out) |-> out[i].ev.type]
        \o (IF mpc = "failed" THEN << "error" >> ELSE << >>)

FeedNext == Next \/ M_PlanRaises \/ M_ReportRaises \/ M_PersistRaises

FeedSpec == Init /\ [][FeedNext]_vars

\* ------------------------------------- the shared state at lock granularity
\* _execute_task lines 351-407 of every worker, one step per statement of the
\* critical section; "+= 1" is a load followed by a store. The streaming run
\* above takes the whole critical section as one step (W_Sources).
LockFrame ==
    UNCHANGED << filterVars, queueVars, events, cursor, event_sink, rec_event,
                 note_id, observedVars, mpc, out, spawned, finished_workers,
                 sink_task, tool_event_sink_enabled, n_extra, summary, auxVars >>

\* task.status = "in_progress"; dispatch_search(task.query, config,
\* state.research_loop_count): the count is read without the lock; the search
\* returns no results, returns results, or raises
S_Search(t) ==
    /\ pc[t] = "idle"
    /\ status' = [status EXCEPT ![t] = "in_progress"]
    /\ seen_loop_count' = [seen_loop_count EXCEPT ![t] = research_loop_count]
    /\ \E r \in {"empty", "results", "raised"} :
           /\ search_result' = [search_result EXCEPT ![t] = r]
           /\ pc' = [pc EXCEPT ![t] = IF r = "raised" THEN "done" ELSE "searched"]
    /\ UNCHANGED << stateVars, state_lock, loop_tmp >>
    /\ LockFrame

\* no results: task.status = "skipped"; return
S_Skip(t) ==
    /\ pc[t] = "searched" /\ search_result[t] = "empty"
    /\ status' = [status EXCEPT ![t] = "skipped"]
    /\ pc' = [pc EXCEPT ![t] = "done"]
    /\ UNCHANGED << search_result, stateVars, lockVars >>
    /\ LockFrame

\* prepare_research_context; task.sources_summary = sources_summary
S_Prepare(t) ==
    /\ pc[t] = "searched" /\ search_result[t] = "results"
    /\ pc' = [pc EXCEPT ![t] = "ready"]
    /\ UNCHANGED << status, search_result, stateVars, lockVars >>
    /\ LockFrame

\* an acquire that does not wait for the lock to be free
S_Acquire_no_wait(t) ==
    /\ pc[t] = "ready"
    /\ state_lock' = t
    /\ pc' = [pc EXCEPT ![t] = "locked"]
    /\ UNCHANGED << status, search_result, stateVars, loop_tmp, seen_loop_count >>
    /\ LockFrame

\* with self._state_lock: (enter)
S_Acquire(t) ==
    /\ pc[t] = "ready"
    /\ state_lock = NoTask
    /\ state_lock' = t
    /\ pc' = [pc EXCEPT ![t] = "locked"]
    /\ UNCHANGED << status, search_result, stateVars, loop_tmp, seen_loop_count >>
    /\ LockFrame

\* state.web_research_results.append(context)
S_AppendContext(t) ==
    /\ pc[t] = "locked"
    /\ web_research_results' = Append(web_research_results, t)
    /\ pc' = [pc EXCEPT ![t] = "context"]
    /\ UNCHANGED << status, search_result, sources_gathered, research_loop_count,
                    lockVars >>
    /\ LockFrame

\* state.sources_gathered.append(sources_summary)
S_AppendSources(t) ==
    /\ pc[t] = "context"
    /\ sources_gathered' = Append(sources_gathered, t)
    /\ pc' = [pc EXCEPT ![t] = "sources"]
    /\ UNCHANGED << status, search_result, web_research_results,
                    research_loop_count, lockVars >>
    /\ LockFrame

\* a load that takes the count read before the search instead of the current one
S_LoadCount_stale(t) ==
    /\ pc[t] = "sources"
    /\ loop_tmp' = [loop_tmp EXCEPT ![t] = seen_loop_count[t]]
    /\ pc' = [pc EXCEPT ![t] = "loaded"]
    /\ UNCHANGED << status, search_result, stateVars, state_lock, seen_loop_count >>
    /\ LockFrame

\* state.research_loop_count += 1: the load
S_LoadCount(t) ==
    /\ pc[t] = "sources"
    /\ loop_tmp' = [loop_tmp EXCEPT ![t] = research_loop_count]
    /\ pc' = [pc EXCEPT ![t] = "loaded"]
    /\ UNCHANGED << status, search_result, stateVars, state_lock, seen_loop_count >>
    /\ LockFrame

\* state.research_loop_count += 1: the store
S_StoreCount(t) ==
    /\ pc[t] = "loaded"
    /\ research_loop_count' = loop_tmp[t] + 1
    /\ pc' = [pc EXCEPT ![t] = "stored"]
    /\ UNCHANGED << status, search_result, web_research_results, sources_gathered,
                    lockVars >>
    /\ LockFrame

\* with self._state_lock: (exit); the rest of the pipeline does not touch
\* the shared state
S_Release(t) ==
    /\ pc[t] = "stored"
    /\ state_lock' = NoTask
    /\ pc' = [pc EXCEPT ![t] = "done"]
    /\ UNCHANGED << status, search_result, stateVars, loop_tmp, seen_loop_count >>
    /\ LockFrame

LockNext ==
    \E t \in Tasks :
        \/ S_Search(t) \/ S_Skip(t) \/ S_Prepare(t) \/ S_Acquire(t)
        \/ S_AppendContext(t) \/ S_AppendSources(t) \/ S_LoadCount(t)
        \/ S_StoreCount(t) \/ S_Release(t)

\* the workers of one run on a fresh shared state
LockSpec == LogStart /\ [][LockNext]_vars

\* ------------------------------------------------- the helpers, call by call
\* One call of a helper with arguments drawn from small sets; call holds the
\* arguments and what the helper returned or left behind.
CallFrame ==
    UNCHANGED << filterVars, logVars, queueVars, mpc, out, spawned,
                 finished_workers, sink_task, tool_event_sink_enabled, status,
                 search_result, n_extra, stateVars, summary, lockVars,
                 note_path, to_attach, seen_link, planVars >>

\* events as the worker, the generator and the tracker hand them to enqueue
EnqueueEvents ==
    { Event(type, task_id, "", step) :
        type \in {"task_status", "tool_call"},
        task_id \in Tasks \cup {NoTask, UnlistedTask},
        step \in {NoStep, 0} \cup Tasks }

\* enqueue(event, task=..., step_override=...): payload = dict(event) is a
\* copy, the caller's event is not written
Call_enqueue ==
    /\ call.fn = "none"
    /\ \E event \in EnqueueEvents, task \in Tasks \cup {NoTask},
          step_override \in {NoStep, 0, NumTasks + 1} :
           call' = [fn |-> "enqueue", event |-> event, task |-> task,
                    step_override |-> step_override,
                    queued |-> enqueue(event, task, step_override),
                    event_after |-> event]
    /\ CallFrame

NoteIds == {"n1", "n2"}
NotePayloads == { [task_id |-> t, note_id |-> n] : t \in Tasks, n \in NoteIds }
LinkStates ==
    [note_id : NoteIds \cup {NoNote},
     note_path : {NoPath} \cup { AttachPath(n) : n \in NoteIds }]

\* _attach_note_to_task(tasks, task_id, note_id), and the same call again
Call_attach ==
    /\ call.fn = "none"
    /\ \E links \in [Tasks -> LinkStates], task_id \in Tasks \cup {UnlistedTask},
          nid \in NoteIds, workspace \in BOOLEAN :
           call' = [fn |-> "attach", links |-> links, task_id |-> task_id,
                    nid |-> nid, workspace |-> workspace,
                    once |-> attach_link(links, task_id, nid, workspace),
                    twice |-> attach_link(attach_link(links, task_id, nid, workspace),
                                          task_id, nid, workspace)]
    /\ CallFrame

\* ---- record on payloads with missing, null or wrongly typed fields.
\* A field value is a token: "missing" (key absent), "null" (None), "zero"
\* (a falsy value of another type), "list" (a truthy value of another type),
\* or a well-typed value.
Falsy == {"missing", "null", "zero"}

\* str(payload.get(key) or default)
StrOr(value, default) ==
    IF value \in Falsy THEN default
    ELSE IF value = "list" THEN "str(list)"
    ELSE value

\* int(x) on the values a "task_id" parameter is given here: an int, a
\* numeric string, None, a non-numeric string, float nan, float inf
int(x) ==
    CASE x = "1" -> [exc |-> "none", value |-> 1]
      [] x = "'2'" -> [exc |-> "none", value |-> 2]
      [] x = "None" -> [exc |-> "TypeError", value |-> NoTask]
      [] x = "'abc'" -> [exc |-> "ValueError", value |-> NoTask]
      [] x = "nan" -> [exc |-> "ValueError", value |-> NoTask]
      [] x = "inf" -> [exc |-> "OverflowError", value |-> NoTask]

\* parsed parameters: "task_id" ("absent" or a value), "tags" ("absent", a
\* string, or the list ["task_2"]), "title" ("absent" or "任务 1"), "note_id"
ParameterDicts ==
    [kind : {"dict"},
     task_id : {"absent", "1", "'2'", "None", "'abc'", "nan", "inf"},
     tags : {"absent", "str", "[task_2]"},
     title : {"absent", "task 1"},
     note_id : {NoNote, "n1"}]
\* a missing, null or non-dictionary parsed_parameters, and the {} it becomes
NonDicts == { [kind |-> k] : k \in {"missing", "null", "zero", "list"} }
EmptyDict == [kind |-> "empty"]

\* _infer_task_id: "except (TypeError, ValueError): pass" lets any other
\* exception of int() leave the function
infer_task_id(parameters) ==
    LET by_tags == IF parameters.tags = "[task_2]" THEN 2
                   ELSE IF parameters.title = "task 1" THEN 1
                   ELSE NoTask
    IN  IF parameters = EmptyDict THEN [exc |-> "none", value |-> NoTask]
        ELSE IF parameters.task_id = "absent" THEN [exc |-> "none", value |-> by_tags]
        ELSE LET r == int(parameters.task_id)
             IN  IF r.exc = "none" THEN r
                 ELSE IF r.exc \in {"TypeError", "ValueError"}
                 THEN [exc |-> "none", value |-> by_tags]
                 ELSE r

RecordPayloads ==
    [agent_name : {"missing", "null", "zero", "list", "planner"},
     tool_name : {"missing", "null", "list", "note", "search"},
     parsed_parameters : NonDicts \cup ParameterDicts,
     result : {"missing", "ID: n2"}]

\* record(payload) on the log evs: the exception that leaves it ("none" when
\* it returns), the log afterwards and the event it built
record(payload, evs) ==
    LET agent_name == StrOr(payload.agent_name, "unknown")
        tool_name == StrOr(payload.tool_name, "unknown")
        parsed_parameters ==
            IF payload.parsed_parameters.kind = "dict"
            THEN payload.parsed_parameters ELSE EmptyDict
        result_text == StrOr(payload.result, "")
        task_id == infer_task_id(parsed_parameters)
        note ==
            IF tool_name # "note" THEN NoNote
            ELSE IF parsed_parameters # EmptyDict /\ parsed_parameters.note_id # NoNote
            THEN parsed_parameters.note_id
            ELSE IF result_text = "ID: n2" THEN "n2" ELSE NoNote
        event == [id |-> Len(evs) + 1, agent |-> agent_name, tool |-> tool_name,
                  parsed_parameters |-> parsed_parameters, result |-> result_text,
                  task_id |-> task_id.value, note_id |-> note]
    IN  IF task_id.exc # "none"
        THEN [exc |-> task_id.exc, events |-> evs, event |-> NoEvent]
        ELSE [exc |-> "none", events |-> Append(evs, event), event |-> event]

Call_record ==
    /\ call.fn = "none"
    /\ \E payload \in RecordPayloads :
           call' = [fn |-> "record", payload |-> payload, before |-> events,
                    after |-> record(payload, events)]
    /\ CallFrame

\* ---- the summary of a task: get_summary and the assignment to task.summary
TOOL_CALL == << "[", "T", "O", "O", "L", "_", "C", "A", "L", "L", ":" >>
Placeholder == << "n", "/", "a" >>        \* the fixed text "暂无可用信息"

\* str.strip()
RECURSIVE Strip(_)
Strip(text) ==
    IF text = << >> THEN text
    ELSE IF Head(text) = " " THEN Strip(Tail(text))
    ELSE IF text[Len(text)] = " " THEN Strip(SubSeq(text, 1, Len(text) - 1))
    ELSE text

\* utils.strip_thinking_tokens: the loop cuts from the first OPEN to the end
\* of the first CLOSE; when that CLOSE ends at or before the OPEN the text
\* does not shrink and both markers stay, so the loop never ends
RECURSIVE strip_thinking_tokens(_)
strip_thinking_tokens(text) ==
    LET start == Find(text, OPEN, 0)
        end == Find(text, CLOSE, 0) + Len(CLOSE)
    IN  IF start = -1 \/ Find(text, CLOSE, 0) = -1
        THEN [diverges |-> FALSE, text |-> text]
        ELSE IF end <= start THEN [diverges |-> TRUE, text |-> text]
        ELSE strip_thinking_tokens(Slice(text, 0, start) \o Slice(text, end, Len(text)))

\* utils.strip_tool_calls: re.sub of \[TOOL_CALL:[^\]]+\] by ""
RECURSIVE strip_tool_calls(_)
strip_tool_calls(text) ==
    LET i == Find(text, TOOL_CALL, 0)
        j == Find(text, << "]" >>, i + Len(TOOL_CALL))
    IN  IF i = -1 THEN text
        ELSE IF j = -1 THEN text
        ELSE IF j = i + Len(TOOL_CALL)
        THEN Slice(text, 0, i + 1) \o strip_tool_calls(Slice(text, i + 1, Len(text)))
        ELSE Slice(text, 0, i) \o strip_tool_calls(Slice(text, j + 1, Len(text)))

\* get_summary on the collected visible output
get_summary(visible, remove) ==
    LET cleaned == IF remove THEN strip_thinking_tokens(visible)
                   ELSE [diverges |-> FALSE, text |-> visible]
    IN  IF cleaned.diverges THEN cleaned
        ELSE [diverges |-> FALSE, text |-> Strip(strip_tool_calls(cleaned.text))]

\* an assignment without the placeholder
task_summary_no_placeholder(summary_text) == Strip(summary_text)

\* task.summary = summary_text.strip() if summary_text else "暂无可用信息"
task_summary(summary_text) ==
    IF summary_text # << >> THEN Strip(summary_text) ELSE Placeholder

SummaryPieces == { << " " >>, << "a" >>, OPEN, CLOSE, TOOL_CALL, << "]" >> }
SummaryTexts ==
    { Flatten(ps) : ps \in UNION { [1 .. n -> SummaryPieces] : n \in 0 .. MaxPieces } }

\* the end of _execute_task for a summary stream that has collected the text
\* visible: summary_getter(), task.summary, task.status = "completed"; a
\* getter that does not return leaves the task in_progress
Call_summary ==
    /\ call.fn = "none"
    /\ \E visible \in SummaryTexts, remove \in BOOLEAN :
           LET got == get_summary(visible, remove)
           IN  call' = IF got.diverges
                       THEN [fn |-> "summary", visible_output |-> visible,
                             remove_thinking |-> remove, returned |-> FALSE,
                             summary_text |-> << >>, summary |-> << >>,
                             status |-> "in_progress"]
                       ELSE [fn |-> "summary", visible_output |-> visible,
                             remove_thinking |-> remove, returned |-> TRUE,
                             summary_text |-> got.text,
                             summary |-> task_summary(got.text),
                             status |-> "completed"]
    /\ CallFrame

\* _build_payload: payload["note_path"], set when the event has a note id and
\* a notes workspace is configured: Path(workspace) / f"note_{note_id}.md"
payload_note_path(event, workspace) ==
    IF event.note_id # NoNote /\ workspace
    THEN << "note_", event.note_id, ".md" >>
    ELSE NoPath

\* a tool call with a task id and a note id: the payload _build_payload makes
\* for it, and the linkage drain attaches to the freshly planned tasks
Call_note_path ==
    /\ call.fn = "none"
    /\ \E payload \in NotePayloads, workspace \in BOOLEAN :
           LET event == ToolCallEvent(events, payload)
           IN  call' = [fn |-> "note_path", event |-> event, workspace |-> workspace,
                        payload_path |-> payload_note_path(event, workspace),
                        links |-> attach_link([t \in Tasks |->
                                                 [note_id |-> NoNote, note_path |-> NoPath]],
                                              event.task_id, event.note_id, workspace)]
    /\ CallFrame

\* strip_thinking_tokens(text) on its own
Call_strip ==
    /\ call.fn = "none"
    /\ \E text \in SummaryTexts :
           call' = [fn |-> "strip", text |-> text,
                    result |-> strip_thinking_tokens(text)]
    /\ CallFrame

CallNext ==
    \/ Call_enqueue \/ Call_attach \/ Call_record \/ Call_summary \/ Call_strip
    \/ Call_note_path

CallSpec == LogStart /\ [][CallNext]_vars

\* ------------------------------------------- note linkage across threads:
\* a worker's drain attaches notes to any task of state.todo_items after it
\* has left the journal's lock, while the task's own worker reads
\* task.note_id and task.note_path to build an event. A notes workspace is
\* configured (enable_notes with notes_workspace set).
NoteFrame ==
    UNCHANGED << filterVars, queueVars, event_sink, rec_event, pc, observedVars,
                 mpc, out, spawned, finished_workers, sink_task,
                 tool_event_sink_enabled, status, search_result, n_extra,
                 stateVars, summary, lockVars, call, planVars >>


Reading == << "reading" >>      \* note_id is loaded, note_path not yet

\* the events of a drained slice that carry a task id and a note id
RECURSIVE Attachable(_)
Attachable(new_events) ==
    IF new_events = << >> THEN << >>
    ELSE LET e == Head(new_events)
         IN  (IF e.task_id = NoTask \/ e.note_id = NoNote THEN << >>
              ELSE << [task_id |-> e.task_id, note_id |-> e.note_id, half |-> FALSE] >>)
             \o Attachable(Tail(new_events))

\* record of a note tool call (the summarizer agent of any worker)
N_Record ==
    /\ Len(events) < MaxRecords
    /\ \E payload \in NotePayloads :
           events' = Append(events, ToolCallEvent(events, payload))
    /\ UNCHANGED << cursor, note_id, note_path, to_attach, seen_link >>
    /\ NoteFrame

\* drain, the part under self._lock: slice the log, move the cursor
N_DrainSlice(t) ==
    /\ to_attach[t] = << >>
    /\ cursor < Len(events)
    /\ to_attach' = [to_attach EXCEPT ![t] = Attachable(drain(events, cursor).new_events)]
    /\ cursor' = Len(events)
    /\ UNCHANGED << events, note_id, note_path, seen_link >>
    /\ NoteFrame

\* _attach_note_to_task, first statement for the next event of the slice:
\* task.note_id = note_id when it differs; for an unchanged id the path is
\* filled in if it is None; otherwise nothing is written
N_AttachId(t) ==
    /\ to_attach[t] # << >>
    /\ ~Head(to_attach[t]).half
    /\ LET e == Head(to_attach[t])
       IN  IF note_id[e.task_id] # e.note_id
           THEN /\ note_id' = [note_id EXCEPT ![e.task_id] = e.note_id]
                /\ to_attach' = [to_attach EXCEPT ![t][1].half = TRUE]
                /\ UNCHANGED note_path
           ELSE /\ note_path' = IF note_path[e.task_id] = NoPath
                                 THEN [note_path EXCEPT ![e.task_id] = AttachPath(e.note_id)]
                                 ELSE note_path
                /\ to_attach' = [to_attach EXCEPT ![t] = Tail(@)]
                /\ UNCHANGED note_id
    /\ UNCHANGED << events, cursor, seen_link >>
    /\ NoteFrame

\* _attach_note_to_task, second statement: task.note_path = .../{note_id}.md
N_AttachPath(t) ==
    /\ to_attach[t] # << >>
    /\ Head(to_attach[t]).half
    /\ LET e == Head(to_attach[t])
       IN  note_path' = [note_path EXCEPT ![e.task_id] = AttachPath(e.note_id)]
    /\ to_attach' = [to_attach EXCEPT ![t] = Tail(@)]
    /\ UNCHANGED << events, cursor, note_id, seen_link >>
    /\ NoteFrame

\* worker t builds an event: "note_id": task.note_id ...
N_ReadId(t) ==
    /\ seen_link[t][2] # Reading
    /\ seen_link' = [seen_link EXCEPT ![t] = << note_id[t], Reading >>]
    /\ UNCHANGED << events, cursor, note_id, note_path, to_attach >>
    /\ NoteFrame

\* ... "note_path": task.note_path
N_ReadPath(t) ==
    /\ seen_link[t][2] = Reading
    /\ seen_link' = [seen_link EXCEPT ![t][2] = note_path[t]]
    /\ UNCHANGED << events, cursor, note_id, note_path, to_attach >>
    /\ NoteFrame

NoteNext ==
    \/ N_Record
    \/ \E t \in Tasks : \/ N_DrainSlice(t) \/ N_AttachId(t) \/ N_AttachPath(t)
                        \/ N_ReadId(t) \/ N_ReadPath(t)

NoteSpec == LogStart /\ [][NoteNext]_vars

\* ------------------------------------------------------ multiplexer claims
TerminalStatus == {"skipped", "completed", "failed"}
Terminal(e) ==
    e.ev.type = "task_status" /\ e.ev.status \in {"completed", "skipped", "failed"}
TerminalsOf(t) == { i \in DOMAIN out : Terminal(out[i]) /\ out[i].ev.task_id = t }
ViaQueue(e) == e.seq > 0
NotSentinel(e) == e.ev.type # "__task_done__"

\* C1: on the merged stream no task id is in more than one terminal
\* task_status event, and there are never more than N terminal events.
C1_OneTerminalPerTask ==
    /\ \A t \in Tasks : Cardinality(TerminalsOf(t)) <= 1
    /\ Cardinality({ i \in DOMAIN out : Terminal(out[i]) }) <= NumTasks
C1_Witness ==
    /\ mpc = "done"
    /\ \A t \in Tasks : Cardinality(TerminalsOf(t)) = 1
    /\ \E i \in DOMAIN out : Terminal(out[i]) /\ out[i].ev.status = "failed"
    /\ \E i \in DOMAIN out : Terminal(out[i]) /\ out[i].ev.status # "failed"

C9_PerWorkerOrder ==
    \A i, j \in DOMAIN out :
        (i < j /\ out[i].src # Main /\ out[i].src = out[j].src)
            => out[i].seq < out[j].seq
C9_Witness ==
    \E i, j, k \in DOMAIN out :
        /\ i < j /\ j < k
        /\ out[j].ev.type = "tool_call" /\ ViaQueue(out[j])
        /\ out[i].src = out[j].src /\ out[k].src = out[j].src
        /\ \E m \in DOMAIN out :
               i < m /\ m < k /\ out[m].src \notin {Main, out[j].src}

C11_StragglersForwarded ==
    mpc \in {"join", "report", "done"}
        => /\ event_queue = << >>
           /\ SelectSeq(out, ViaQueue) = SelectSeq(pushed, NotSentinel)

\* C12: the task-finished event is never forwarded: no yielded event has type
\* "__task_done__", in the consumer loop and in the final flush.
C12_SentinelNeverForwarded == \A i \in DOMAIN out : NotSentinel(out[i])
C12_Witness ==
    /\ mpc = "done"
    /\ finished_workers = NumTasks
    /\ Cardinality({ i \in DOMAIN pushed : ~NotSentinel(pushed[i]) }) = NumTasks
    /\ Len(SelectSeq(out, ViaQueue)) > NumTasks

SentinelsOf(t) ==
    { i \in DOMAIN pushed : pushed[i].src = t /\ ~NotSentinel(pushed[i]) }
FailedEventsOf(t) ==
    { i \in DOMAIN pushed : /\ pushed[i].ev.type = "task_status"
                            /\ pushed[i].ev.status = "failed"
                            /\ pushed[i].ev.task_id = t }
\* a worker has put exactly one task-finished event when it has ended, none
\* before, and nothing after it
C13_SentinelLast ==
    \A t \in Tasks :
        /\ Cardinality(SentinelsOf(t)) = (IF pc[t] = "done" THEN 1 ELSE 0)
        /\ \A i \in SentinelsOf(t) :
               /\ pushed[i].ev.task_id = t
               /\ \A j \in DOMAIN pushed : pushed[j].src = t => j <= i
\* C13: every worker puts exactly one task-finished event, as its last event,
\* whether its pipeline completed, was skipped or raised; under fair
\* scheduling the consumer loop receives N of them, leaves its blocking loop
\* and the worker threads are joined.
C13_NeverWaitsForever ==
    []C13_SentinelLast /\ <>(finished_workers = NumTasks /\ mpc \in {"report", "done"})
C13_Witness ==
    /\ mpc = "report"
    /\ finished_workers = NumTasks
    /\ \E t \in Tasks : FailedEventsOf(t) # {} /\ pc[t] = "done"
    /\ \E t \in Tasks : status[t] = "completed" /\ pc[t] = "done"

\* C14: when a task's pipeline raises, the task's status becomes failed and a
\* failed task_status event is emitted for it.
C14_FailureSetsFailed ==
    \A t \in Tasks : FailedEventsOf(t) # {} => status[t] = "failed"

\* C15: pending -> in_progress -> {skipped, completed, failed}: a terminal
\* status never changes again, skipped and completed are entered only from
\* in_progress, and pending is left only for in_progress.
C15_StatusMachine ==
    [][\A t \in Tasks :
         /\ status[t] \in {"skipped", "completed", "failed"} => status'[t] = status[t]
         /\ (status'[t] # status[t] /\ status'[t] \in {"skipped", "completed"})
               => status[t] = "in_progress"
         /\ status[t] = "pending" => status'[t] \in {"pending", "in_progress"}]_vars
C15_Witness ==
    /\ mpc = "done"
    /\ \E t \in Tasks : status[t] = "skipped"
    /\ \E t \in Tasks : status[t] = "completed"

\* the step in which worker t's pipeline raises touches no other task and
\* not the shared state
C16_Frame ==
    [][\A t \in Tasks :
         (W_Raises(t) \/ W_StreamRaises(t))
           => /\ stateVars' = stateVars
              /\ \A u \in Tasks \ {t} :
                     /\ status'[u] = status[u]
                     /\ summary'[u] = summary[u]
                     /\ search_result'[u] = search_result[u]
                     /\ rec_event'[u] = rec_event[u]
                     /\ pc'[u] = pc[u]]_vars
C17_SearchEmptyPath ==
    \A t \in Tasks :
        (search_result[t] = "empty" /\ pc[t] \in {"finally", "done"})
          => /\ status[t] = "skipped"
             /\ summary[t] = "unset"
             /\ \A i \in DOMAIN pushed :
                    pushed[i].ev.task_id = t
                      => pushed[i].ev.type \notin {"sources", "task_summary_chunk"}
             /\ \A i \in DOMAIN web_research_results : web_research_results[i] # t
             /\ \A i \in DOMAIN sources_gathered : sources_gathered[i] # t
             /\ research_loop_count = Len(web_research_results)
             /\ research_loop_count = Len(sources_gathered)
C17_Witness ==
    /\ mpc = "done"
    /\ \E t \in Tasks : search_result[t] = "empty" /\ status[t] = "skipped"
    /\ \E t \in Tasks : status[t] = "completed"
    /\ research_loop_count = 1

\* C18: context append, source append and counter increment of a task are one
\* critical section under the single state lock: at most its holder is inside,
\* and whenever no worker holds the lock both lists and the counter agree.
C18_AtomicMutations ==
    /\ \A t \in Tasks :
           pc[t] \in {"locked", "context", "sources", "loaded", "stored"}
             <=> state_lock = t
    /\ state_lock = NoTask
         => /\ Len(web_research_results) = Len(sources_gathered)
            /\ Len(sources_gathered) = research_loop_count
C18_Witness ==
    /\ state_lock = NoTask
    /\ research_loop_count = 1
    /\ \E t \in Tasks : pc[t] = "ready" /\ seen_loop_count[t] = 0

ResultTasks == { t \in Tasks : search_result[t] = "results" }
C20_SinkOff ==
    mpc \in {"join", "abort_join", "report", "done", "closed"}
        => ~event_sink /\ ~tool_event_sink_enabled
C20_SinkDeregistered ==
    []C20_SinkOff /\ [][(mpc \in {"done", "closed"}) => (pushed' = pushed)]_vars
C20_Witness ==
    /\ mpc = "closed"
    /\ Len(SelectSeq(out, ViaQueue)) > 0
    /\ event_queue # << >>
    /\ Len(events) > 0
    /\ n_extra = MaxExtra

\* C21: every event on the external stream that carries a task id references
\* a task of the run's task list, tool_call events drained in the planning
\* and report phases included.
C21_TaskIdsListed ==
    \A i \in DOMAIN out :
        out[i].ev.task_id # NoTask => out[i].ev.task_id \in Tasks

\* C22: for an event pushed with a task argument the queued event has that
\* task's id and its channel's token; its step is step_override when given,
\* else the step already on the event, else the channel's position; the
\* caller's event is not changed.
C22_EnqueueStamps ==
    (call.fn = "enqueue" /\ call.task # NoTask)
      => /\ call.queued.task_id = call.task
         /\ call.queued.stream_token = channel_map[call.task].token
         /\ call.queued.step =
               (IF call.step_override # NoStep THEN call.step_override
                ELSE IF call.event.step # NoStep THEN call.event.step
                ELSE channel_map[call.task].step)
         /\ channel_map[call.task].step = call.task
         /\ call.queued.type = call.event.type
         /\ call.event_after = call.event
C22_Witness ==
    /\ call.fn = "enqueue"
    /\ call.task = NumTasks
    /\ call.event.task_id = 1
    /\ call.event.step = 1
    /\ call.step_override = NoStep
    /\ call.queued.step = 1

\* C31: a tool call recorded on the thread of worker t during fan-out reaches
\* the queue as a tool_call event that carries the task id record inferred
\* for the call, or t, with the stream token of that same task; never the id
\* or token of another task.
C31_SinkKeepsTask ==
    [][\A t \in Tasks :
          (W_RecordAppend(t) /\ event_sink)
            => LET e == pushed'[Len(pushed')].ev
               IN  /\ e.type = "tool_call"
                   /\ e.task_id \in ({rec_event[t].task_id, t} \ {NoTask})
                   /\ e.stream_token = channel_map[e.task_id].token]_vars

ToolCallsOn(evs) == { i \in DOMAIN evs : evs[i].ev.type = "tool_call" }
\* C32: in a streaming run every recorded tool call appears on the external
\* stream as exactly one tool_call event: a call delivered by the live sink is
\* not delivered again by a drain, and a call recorded while no sink is
\* registered is delivered by the next drain.
C32_ExactlyOneToolCall ==
    /\ Cardinality(ToolCallsOn(out)) <= Len(events)
    /\ mpc = "done" => Cardinality(ToolCallsOn(out)) = Len(events)

\* an OPEN that is followed, after its end, by a CLOSE
HasCompleteSpan(text) ==
    \E i \in 0 .. Len(text) :
        /\ Find(text, OPEN, i) = i
        /\ Find(text, CLOSE, i + Len(OPEN)) # -1
\* C33: for every text, with the markers in any order and number,
\* strip_thinking_tokens reaches a result after finitely many iterations and
\* the result contains no complete "<think>...</think>" span.
C33_StripTerminates ==
    call.fn = "strip"
      => /\ ~call.result.diverges
         /\ ~HasCompleteSpan(call.result.text)
         /\ Len(call.result.text) <= Len(call.text)

\* C34: with removal disabled every non-empty chunk of the source is emitted
\* unchanged and in order: the concatenation of the emitted chunks equals the
\* text accumulated for get_summary.
C34_PassThrough ==
    ~remove_thinking
      => /\ emitted = visible_output
         /\ fpc = "done" => emitted = source_text

\* an event of type ty (and, for a task_status, one of the statuses sts)
\* about task t occurs on the stream before position i
Before(i, ty, t, sts) ==
    \E j \in 1 .. i - 1 :
        /\ out[j].ev.type = ty
        /\ out[j].ev.task_id = t
        /\ (ty = "task_status" => out[j].ev.status \in sts)
C36_SameNotePath ==
    (call.fn = "note_path" /\ call.workspace)
      => call.payload_path = call.links[call.event.task_id].note_path

Blank(text) == \A i \in DOMAIN text : text[i] = " "
\* C29: whenever a task's status is completed its summary is set and is not
\* empty or whitespace-only; it is the fixed placeholder whenever the
\* summarizer's output was empty or whitespace-only.
C29_SummaryNonEmpty ==
    (call.fn = "summary" /\ call.status = "completed")
      => /\ ~Blank(call.summary)
         /\ (Blank(call.summary_text) \/ Blank(call.visible_output))
              => call.summary = Placeholder
         /\ ~Blank(call.summary_text) => call.summary = call.summary_text
C29_Witness ==
    /\ call.fn = "summary"
    /\ call.status = "completed"
    /\ call.visible_output = TOOL_CALL \o << "a", "]" >>
    /\ call.summary = Placeholder

\* C26: when the planner returns zero tasks the task list becomes exactly one
\* fallback task (id 1) whose query contains the research topic, and the run
\* executes exactly that task: it is started and reaches a terminal status
\* (here: the non-streaming run).
C26_FallbackExecuted ==
    (mpc = "returned" /\ todo_count = 0)
      => /\ Len(todo_items) = 1
         /\ todo_items[1].id = 1
         /\ (research_topic = ""
               \/ \E i \in DOMAIN todo_items[1].query :
                     todo_items[1].query[i] = research_topic)
         /\ status[1] \in TerminalStatus

\* C27: for a payload with any subset of its fields missing, null or of the
\* wrong type, record returns normally and appends exactly one event; missing
\* fields give agent and tool "unknown" and empty parameters, and the task id
\* is unset when nothing can be inferred.
C27_RecordTotal ==
    call.fn = "record"
      => /\ call.after.exc = "none"
         /\ Len(call.after.events) = Len(call.before) + 1
         /\ call.payload.agent_name \in Falsy => call.after.event.agent = "unknown"
         /\ call.payload.tool_name \in Falsy => call.after.event.tool = "unknown"
         /\ call.payload.parsed_parameters \in NonDicts
              => /\ call.after.event.parsed_parameters = EmptyDict
                 /\ call.after.event.task_id = NoTask

\* C28: every drain performed by run moves the cursor to the end of the log,
\* none of the drained events is returned to the caller, and when run
\* returns the cursor equals the log length.
C28_DrainsDiscarded ==
    /\ [](mpc = "returned" => (cursor = Len(events) /\ out = << >>))
    /\ [][(R_DrainPlan \/ R_DrainReport)
            => (cursor' = Len(events) /\ events' = events /\ out' = out
                /\ returned' = SubSeq(events, 1, Len(events)))]_vars
C28_Witness ==
    /\ mpc = "returned"
    /\ Len(events) = MaxRecords
    /\ returned = events
    /\ Len(last_result) = 1
    /\ cursor = Len(events)

\* C30: when the non-streaming run returns every task of the returned list
\* has a terminal status (skipped, completed or failed); none is pending or
\* in_progress.
C30_AllTerminal ==
    mpc = "returned"
      => \A i \in DOMAIN todo_items : status[todo_items[i].id] \in TerminalStatus

CountType(w, type) == Cardinality({ i \in DOMAIN w : w[i] = type })
\* C25: if run_stream raises outside any task's scope the wire stream's last
\* event is a single error event and there is no done event; in a run that
\* does not raise exactly one done event is emitted, it is the last event,
\* and there is no error event.
C25_FeedEnd ==
    LET w == event_iterator
    IN  /\ mpc = "failed"
           => /\ w # << >> /\ w[Len(w)] = "error"
              /\ CountType(w, "error") = 1 /\ CountType(w, "done") = 0
        /\ mpc = "done"
           => /\ w # << >> /\ w[Len(w)] = "done"
              /\ CountType(w, "done") = 1 /\ CountType(w, "error") = 0
C25_Witness ==
    /\ mpc = "failed"
    /\ finished_workers = NumTasks
    /\ \E i \in DOMAIN out : out[i].ev.type = "tool_call" /\ out[i].ev.step = NumTasks + 1
    /\ event_iterator[Len(event_iterator)] = "error"

\* C24: attaching the same (task_id, note_id) twice leaves note_id and
\* note_path as after the first call; note_id is written only when it
\* differs, note_path is computed for an unchanged id only when it was null,
\* and no other task is touched.
C24_AttachIdempotent ==
    call.fn = "attach"
      => /\ call.twice = call.once
         /\ \A u \in Tasks \ {call.task_id} : call.once[u] = call.links[u]
         /\ call.task_id \in Tasks
              => LET before == call.links[call.task_id]
                     after == call.once[call.task_id]
                 IN  /\ after.note_id = call.nid
                     /\ (before.note_id = call.nid /\ before.note_path # NoPath)
                          => after = before
                     /\ after.note_path # before.note_path
                          => (call.workspace /\ after.note_path = AttachPath(call.nid))
C24_Witness ==
    /\ call.fn = "attach"
    /\ call.task_id = 1
    /\ call.workspace
    /\ call.links[1] = [note_id |-> "n1", note_path |-> AttachPath("n1")]
    /\ call.nid = "n2"
    /\ call.once[1] = [note_id |-> "n2", note_path |-> AttachPath("n2")]
    /\ call.twice = call.once

\* C23: a worker that reads its task's note_id and note_path never sees
\* note_id already changed to a new note while note_path still holds the
\* previous value.
C23_NoTornLink ==
    \A t \in Tasks :
        (seen_link[t][2] # Reading /\ seen_link[t][1] # NoNote)
          => seen_link[t][2] = AttachPath(seen_link[t][1])









\* one summary stream alone: empty journal, no run in progress
FilterStart == FilterInit /\ LogInit /\ RunIdle

FilterSpec == FilterStart /\ [][FilterNext]_vars

====
